---- MODULE Spec2Model ----
(***************************************************************************)
(* A model of the WGAST tutorial scripts: the common-date computation of   *)
(* tutorial 01, its hand-off to tutorial 02, the (t1, t2) date pairing and *)
(* the train/test dataset assembly of tutorial 03, the progressive         *)
(* focal-mean gap filling that tutorial 02 calls, and the resumable        *)
(* training of 04_updated.py.                                              *)
(*                                                                         *)
(* A date string "YYYY-MM-DD" is the triple <<y, m, d>>; a datetime (the   *)
(* strings are parsed with "%Y-%m-%d", so always midnight) is its          *)
(* proleptic Gregorian ordinal; a compact string "YYYYMMDD" is the number  *)
(* y*10000 + m*100 + d.                                                    *)
(***************************************************************************)
EXTENDS Integers, Sequences, FiniteSets, TLC

VARIABLES
    pc,                    \* position of the running script
    \* ---- tutorial 03, step 01 (pairing)
    common_dates_array1,   \* loaded t1 date strings
    common_dates_array2,   \* loaded t2 date strings
    dates1,                \* parsed datetimes of common_dates_array1
    dates2,                \* parsed datetimes of common_dates_array2
    k,                     \* position of the for-loop over dates1
    result_dates,          \* list of (t1, t2) date-string pairs
    dates,                 \* array of (t1, t2) compact-string pairs
    \* ---- tutorial 01, step 03 and tutorial 02, step 01 (common dates)
    MODIS_times,           \* "YYYY-MM-DD HH:MM:SS" timestamps
    L8_times_filtered,     \* "YYYY-MM-DDTHH:MM:SS" timestamps
    dates_sentinel2,       \* "YYYY-MM-DDTHH:MM:SS" timestamps
    dates_modis,           \* date-only strings
    dates_landsat,
    dates_sentinel,
    common_dates,          \* tutorial 01's array of common dates
    cwd,                   \* the working directory: file name -> stored array
    common_dates_array,    \* tutorial 02's loaded array
    \* ---- tutorial 03, step 02 (dataset assembly)
    src_files,             \* files present in data/Triple/MODIS_Landsat8_Sentinel2
    fs_dirs,               \* directories present under data/Tdivision
    fs_files,              \* files present under data/Tdivision
    train_dates,
    test_dates,
    folder,                \* create_subfolders: its folder argument
    i,                     \* create_subfolders: the loop index
    step,                  \* create_subfolders: the next copy of the iteration
    \* ---- tutorial 02, step 02 (progressive focal-mean gap filling)
    raster,                \* working raster: pixel -> tuple of band values
    mask,                  \* working validity mask: pixel -> BOOLEAN
    window,                \* current window size
    step_size,             \* window growth per pass
    raster_in,             \* the raster as given
    mask_in,               \* the mask as given
    \* ---- 04_updated.py (resumable training)
    epochs,                \* opt.epochs, the epochs argument of train
    ckpt,                  \* checkpoint.pth: <<>> when absent, else <<stored epoch>>
    start_epoch,           \* train: start_epoch
    epoch,                 \* train: the loop variable
    interrupts,            \* how many times a run was interrupted so far
    ckpt_init,             \* the checkpoint before the first run
    ckpt_at_start,         \* the checkpoint when the current run started
    iterations,            \* loop iterations the current run has entered
    trained,               \* epoch number -> how many times its iteration was entered
    killed_in              \* epoch number -> interruptions during its iteration

pairVars == <<common_dates_array1, common_dates_array2, dates1, dates2, k,
              result_dates, dates>>

commonVars == <<MODIS_times, L8_times_filtered, dates_sentinel2, dates_modis,
                dates_landsat, dates_sentinel, common_dates, cwd, common_dates_array>>

asmVars == <<src_files, fs_dirs, fs_files, train_dates, test_dates, folder, i, step>>

fillVars == <<raster, mask, window, step_size, raster_in, mask_in>>

trainVars == <<epochs, ckpt, start_epoch, epoch, interrupts, ckpt_init, ckpt_at_start,
               iterations, trained, killed_in>>

vars == <<pc, pairVars, commonVars, asmVars, fillVars, trainVars>>

\* what each script leaves alone
notPairing == <<commonVars, asmVars, fillVars, trainVars>>
notCommon == <<pairVars, asmVars, fillVars, trainVars>>
notAssembly == <<pairVars, commonVars, fillVars, trainVars>>
notFill == <<pairVars, commonVars, asmVars, trainVars>>
notTrain == <<pairVars, commonVars, asmVars, fillVars>>

(***************************************************************************)
(* Bounds of the model.                                                    *)
(***************************************************************************)
MaxLenA == 2
MaxLenB == 2
MaxSeries == 2
MaxPairs == 9
GridW == 3
MaxEpochs == 3
MaxInterrupts == 2

Years == {2020}
Months == 1..3
Days == {1, 15}

(***************************************************************************)
(* The variables of a script while another script runs.                    *)
(***************************************************************************)
PairingIdle ==
    /\ common_dates_array1 = <<>>
    /\ common_dates_array2 = <<>>
    /\ dates1 = <<>>
    /\ dates2 = <<>>
    /\ k = 0
    /\ result_dates = <<>>
    /\ dates = <<>>

AssemblyIdle ==
    /\ src_files = {}
    /\ fs_dirs = {}
    /\ fs_files = {}
    /\ train_dates = <<>>
    /\ test_dates = <<>>
    /\ folder = "train"
    /\ i = 0
    /\ step = 0

FillIdle ==
    /\ raster = <<>>
    /\ mask = <<>>
    /\ window = 0
    /\ step_size = 0
    /\ raster_in = <<>>
    /\ mask_in = <<>>

TrainIdle ==
    /\ epochs = 0
    /\ ckpt = <<>>
    /\ start_epoch = 0
    /\ epoch = 0
    /\ interrupts = 0
    /\ ckpt_init = <<>>
    /\ ckpt_at_start = <<>>
    /\ iterations = 0
    /\ trained = <<>>
    /\ killed_in = <<>>

CommonIdle ==
    /\ MODIS_times = <<>>
    /\ L8_times_filtered = <<>>
    /\ dates_sentinel2 = <<>>
    /\ dates_modis = <<>>
    /\ dates_landsat = <<>>
    /\ dates_sentinel = <<>>
    /\ common_dates = <<>>
    /\ cwd = <<>>
    /\ common_dates_array = <<>>

(***************************************************************************)
(* Calendar: datetime.strptime / strftime with "%Y-%m-%d".                 *)
(***************************************************************************)
IsLeap(y) == (y % 4 = 0) /\ ((y % 100 # 0) \/ (y % 400 = 0))

DaysInMonth(y, m) ==
    IF m = 2 THEN (IF IsLeap(y) THEN 29 ELSE 28)
    ELSE IF m \in {4, 6, 9, 11} THEN 30 ELSE 31

RECURSIVE DaysBeforeMonth(_, _)
DaysBeforeMonth(y, m) ==
    IF m = 1 THEN 0 ELSE DaysBeforeMonth(y, m - 1) + DaysInMonth(y, m - 1)

DaysBeforeYear(y) ==
    (y - 1) * 365 + ((y - 1) \div 4) - ((y - 1) \div 100) + ((y - 1) \div 400)

ValidDate(s) == /\ s[2] \in 1..12
                /\ s[3] \in 1..DaysInMonth(s[1], s[2])

\* datetime.strptime(s, "%Y-%m-%d"): the datetime of a date string.
strptime(s) == DaysBeforeYear(s[1]) + DaysBeforeMonth(s[1], s[2]) + s[3]

\* datetime.strftime("%Y-%m-%d"): the date string of a datetime.
strftime(n) ==
    CHOOSE s \in Years \X (1..12) \X (1..31) : ValidDate(s) /\ strptime(s) = n

\* str.replace('-', ''): "YYYY-MM-DD" to "YYYYMMDD".
compact(s) == s[1] * 10000 + s[2] * 100 + s[3]

DateStrings == {s \in Years \X Months \X Days : ValidDate(s)}

SeqsUpTo(S, n) == UNION {[1..m -> S] : m \in 0..n}

(***************************************************************************)
(* Tutorial 01, step 03: common acquisition dates; tutorial 02, step 01:   *)
(* loading them.  A timestamp is [date, sep, time]: the date string, the   *)
(* character that follows it and the time of day.                          *)
(***************************************************************************)
\* str.split(c)[0]: the text before the first c, the whole text without one
splitFirst(ts, c) == IF ts.sep = c THEN ts.date ELSE ts

\* s < t for date strings, character by character
strLess(s, t) ==
    \/ s[1] < t[1]
    \/ s[1] = t[1] /\ s[2] < t[2]
    \/ s[1] = t[1] /\ s[2] = t[2] /\ s[3] < t[3]

\* ndarray.sort()
sorted(s) == SortSeq(s, strLess)

\* np.unique(ar): the distinct elements, sorted
RECURSIVE dedup(_)
dedup(s) ==
    IF Len(s) <= 1 THEN s
    ELSE IF s[1] = s[2] THEN dedup(Tail(s))
         ELSE <<s[1]>> \o dedup(Tail(s))

unique(ar) == dedup(sorted(ar))

\* aux[:-1][aux[1:] == aux[:-1]]
RECURSIVE adjacentEqual(_)
adjacentEqual(aux) ==
    IF Len(aux) <= 1 THEN <<>>
    ELSE IF aux[1] = aux[2] THEN <<aux[1]>> \o adjacentEqual(Tail(aux))
         ELSE adjacentEqual(Tail(aux))

\* a variant that takes its arguments to hold no repeated element
intersect1d_assume_unique(ar1, ar2) == adjacentEqual(sorted(ar1 \o ar2))

\* np.intersect1d(ar1, ar2)
intersect1d(ar1, ar2) == adjacentEqual(sorted(unique(ar1) \o unique(ar2)))

SeriesDates == {s \in DateStrings : s[3] = 1}

Stamps(sep, time) == {[date |-> d, sep |-> sep, time |-> time] : d \in SeriesDates}

InitCommon ==
    /\ pc = "stage1"
    /\ TrainIdle
    /\ PairingIdle
    /\ AssemblyIdle
    /\ FillIdle
    /\ MODIS_times \in SeqsUpTo(Stamps(" ", "05:30:00"), MaxSeries)
    /\ L8_times_filtered \in SeqsUpTo(Stamps("T", "04:40:00"), MaxSeries)
    /\ dates_sentinel2 \in SeqsUpTo(Stamps("T", "04:50:00"), MaxSeries)
    /\ dates_modis = <<>>
    /\ dates_landsat = <<>>
    /\ dates_sentinel = <<>>
    /\ common_dates = <<>>
    /\ cwd = <<>>
    /\ common_dates_array = <<>>

\* 01.py lines 129-131
ExtractDates ==
    /\ pc = "stage1"
    /\ dates_modis' = [n \in 1..Len(MODIS_times) |-> splitFirst(MODIS_times[n], " ")]
    /\ dates_landsat' =
          [n \in 1..Len(L8_times_filtered) |-> splitFirst(L8_times_filtered[n], "T")]
    /\ dates_sentinel' =
          [n \in 1..Len(dates_sentinel2) |-> splitFirst(dates_sentinel2[n], "T")]
    /\ pc' = "extracted"
    /\ UNCHANGED <<MODIS_times, L8_times_filtered, dates_sentinel2, common_dates, cwd,
                   common_dates_array, notCommon>>

\* 01.py line 134
IntersectSentinelLandsat ==
    /\ pc = "extracted"
    /\ common_dates' = intersect1d(dates_sentinel, dates_landsat)
    /\ pc' = "intersected2"
    /\ UNCHANGED <<MODIS_times, L8_times_filtered, dates_sentinel2, dates_modis,
                   dates_landsat, dates_sentinel, cwd, common_dates_array, notCommon>>

\* 01.py line 135
IntersectModis ==
    /\ pc = "intersected2"
    /\ common_dates' = intersect1d(common_dates, dates_modis)
    /\ pc' = "intersected3"
    /\ UNCHANGED <<MODIS_times, L8_times_filtered, dates_sentinel2, dates_modis,
                   dates_landsat, dates_sentinel, cwd, common_dates_array, notCommon>>

\* np.save(file, arr): the file is created or overwritten
save(dir, file, arr) ==
    [f \in DOMAIN dir \cup {file} |-> IF f = file THEN arr ELSE dir[f]]

\* 01.py line 138; the rest of tutorial 01 writes under data/raw only
SaveCommonDates ==
    /\ pc = "intersected3"
    /\ cwd' = save(cwd, "common_dates.npy", common_dates)
    /\ pc' = "stage2"
    /\ UNCHANGED <<MODIS_times, L8_times_filtered, dates_sentinel2, dates_modis,
                   dates_landsat, dates_sentinel, common_dates, common_dates_array,
                   notCommon>>

\* the file name tutorial 02 gives to np.load (02.py line 35)
LoadedFile == "commun_dates.npy"

\* 02.py line 35: np.load raises FileNotFoundError when the file is absent
LoadCommonDates ==
    /\ pc = "stage2"
    /\ IF LoadedFile \in DOMAIN cwd
       THEN /\ common_dates_array' = cwd[LoadedFile]
            /\ pc' = "stage2_loaded"
       ELSE /\ common_dates_array' = common_dates_array
            /\ pc' = "stage2_FileNotFoundError"
    /\ UNCHANGED <<MODIS_times, L8_times_filtered, dates_sentinel2, dates_modis,
                   dates_landsat, dates_sentinel, common_dates, cwd, notCommon>>

NextCommon ==
    \/ ExtractDates
    \/ IntersectSentinelLandsat
    \/ IntersectModis
    \/ SaveCommonDates
    \/ LoadCommonDates

SpecCommon == InitCommon /\ [][NextCommon]_vars

(***************************************************************************)
(* Tutorial 03, step 01: closest future (t1, t2) pairs.                    *)
(***************************************************************************)
\* line 58: [d2 for d2 in dates2 if d2 != d1]
RECURSIVE candidates(_, _)
candidates(d1, ds2) ==
    IF ds2 = <<>> THEN <<>>
    ELSE IF Head(ds2) # d1 THEN <<Head(ds2)>> \o candidates(d1, Tail(ds2))
         ELSE candidates(d1, Tail(ds2))

\* line 61: [d2 for d2 in candidates if d2 > d1]
RECURSIVE laterThan(_, _)
laterThan(d1, cs) ==
    IF cs = <<>> THEN <<>>
    ELSE IF Head(cs) > d1 THEN <<Head(cs)>> \o laterThan(d1, Tail(cs))
         ELSE laterThan(d1, Tail(cs))

\* a variant that keeps every different date, past ones included
after_anyOther(d1, ds2) == candidates(d1, ds2)

after(d1, ds2) == laterThan(d1, candidates(d1, ds2))

\* line 63, the key of min: (d2 - d1).days
days(d1, d2) == d2 - d1

\* a variant that takes the greatest key instead of the least
RECURSIVE maxByDays(_, _)
maxByDays(d1, s) ==
    IF Len(s) = 1 THEN s[1]
    ELSE LET m == maxByDays(d1, SubSeq(s, 1, Len(s) - 1))
         IN IF days(d1, s[Len(s)]) > days(d1, m) THEN s[Len(s)] ELSE m

\* line 63: min(s, key=...), the first element of s whose key is the least.
RECURSIVE minByDays(_, _)
minByDays(d1, s) ==
    IF Len(s) = 1 THEN s[1]
    ELSE LET m == minByDays(d1, SubSeq(s, 1, Len(s) - 1))
         IN IF days(d1, s[Len(s)]) < days(d1, m) THEN s[Len(s)] ELSE m

closest_date(d1, ds2) == minByDays(d1, after(d1, ds2))

formatDates(rs) == [n \in 1..Len(rs) |-> <<compact(rs[n][1]), compact(rs[n][2])>>]

InitPairing ==
    /\ pc = "load"
    /\ TrainIdle
    /\ CommonIdle
    /\ AssemblyIdle
    /\ FillIdle
    /\ common_dates_array1 \in SeqsUpTo(DateStrings, MaxLenA)
    /\ common_dates_array2 \in SeqsUpTo(DateStrings, MaxLenB)
    /\ dates1 = <<>>
    /\ dates2 = <<>>
    /\ k = 0
    /\ result_dates = <<>>
    /\ dates = <<>>

\* lines 48-49, 54
ParseDates ==
    /\ pc = "load"
    /\ dates1' = [n \in 1..Len(common_dates_array1) |-> strptime(common_dates_array1[n])]
    /\ dates2' = [n \in 1..Len(common_dates_array2) |-> strptime(common_dates_array2[n])]
    /\ k' = 1
    /\ result_dates' = <<>>
    /\ pc' = "pairing"
    /\ UNCHANGED <<common_dates_array1, common_dates_array2, dates, notPairing>>

\* a variant that puts the new pair in front of the list
PairMatch_prepend ==
    /\ pc = "pairing"
    /\ k <= Len(dates1)
    /\ after(dates1[k], dates2) # <<>>
    /\ result_dates' = <<<<strftime(dates1[k]),
                           strftime(closest_date(dates1[k], dates2))>>>> \o result_dates
    /\ k' = k + 1
    /\ UNCHANGED <<pc, common_dates_array1, common_dates_array2, dates1, dates2, dates,
                   notPairing>>

\* lines 56-64: an iteration that finds a future date
PairMatch ==
    /\ pc = "pairing"
    /\ k <= Len(dates1)
    /\ after(dates1[k], dates2) # <<>>
    /\ result_dates' = Append(result_dates,
            <<strftime(dates1[k]), strftime(closest_date(dates1[k], dates2))>>)
    /\ k' = k + 1
    /\ UNCHANGED <<pc, common_dates_array1, common_dates_array2, dates1, dates2, dates,
                   notPairing>>

\* lines 56-62, 65-66: an iteration that finds none
PairSkip ==
    /\ pc = "pairing"
    /\ k <= Len(dates1)
    /\ after(dates1[k], dates2) = <<>>
    /\ k' = k + 1
    /\ UNCHANGED <<pc, common_dates_array1, common_dates_array2, dates1, dates2,
                   result_dates, dates, notPairing>>

\* line 69
FormatPairs ==
    /\ pc = "pairing"
    /\ k > Len(dates1)
    /\ dates' = formatDates(result_dates)
    /\ pc' = "paired"
    /\ UNCHANGED <<common_dates_array1, common_dates_array2, dates1, dates2, k,
                   result_dates, notPairing>>

NextPairing == ParseDates \/ PairMatch \/ PairSkip \/ FormatPairs

SpecPairing == InitPairing /\ [][NextPairing]_vars

(***************************************************************************)
(* Tutorial 03, step 02: train/test split and dataset assembly.            *)
(* A source file is [sensor, mask, date]: M_{date}.tif is                  *)
(* ["M", FALSE, date] and M_mask_{date}.npy is ["M", TRUE, date].  A file  *)
(* under data/Tdivision is [dir, name, content]: dir = <<folder, i>> for   *)
(* {folder}/pair_{i}, name = [j, sensor, mask, date] for                   *)
(* {j:02d}_{sensor}_{date}.tif or {j:02d}_{sensor}_mask_{date}.npy, and    *)
(* content the source file it is a copy of.                                *)
(***************************************************************************)
split_index == 7

Min(a, b) == IF a < b THEN a ELSE b

\* s[:n]
sliceTo(s, n) == SubSeq(s, 1, Min(n, Len(s)))

\* a variant that starts one element late
sliceFrom_skipOne(s, n) == SubSeq(s, n + 2, Len(s))

\* s[n:]
sliceFrom(s, n) == SubSeq(s, n + 1, Len(s))

copy(sensor, is_mask, date, j, label) ==
    [src |-> [sensor |-> sensor, mask |-> is_mask, date |-> date],
     dst |-> [j |-> j, sensor |-> label, mask |-> is_mask, date |-> date]]

\* a variant whose t2 block still names the t1 date
copies_staleDate(date1, date2) ==
    << copy("M", FALSE, date1, 0, "MODIS"),
       copy("L", FALSE, date1, 0, "Landsat"),
       copy("S", FALSE, date1, 0, "Sentinel"),
       copy("M", TRUE, date1, 0, "MODIS"),
       copy("L", TRUE, date1, 0, "Landsat"),
       copy("S", TRUE, date1, 0, "Sentinel"),
       copy("M", FALSE, date1, 1, "MODIS"),
       copy("L", FALSE, date1, 1, "Landsat"),
       copy("M", TRUE, date1, 1, "MODIS"),
       copy("L", TRUE, date1, 1, "Landsat") >>

\* lines 96-139: the shutil.copy calls of one iteration, in order
copies(date1, date2) ==
    << copy("M", FALSE, date1, 0, "MODIS"),
       copy("L", FALSE, date1, 0, "Landsat"),
       copy("S", FALSE, date1, 0, "Sentinel"),
       copy("M", TRUE, date1, 0, "MODIS"),
       copy("L", TRUE, date1, 0, "Landsat"),
       copy("S", TRUE, date1, 0, "Sentinel"),
       copy("M", FALSE, date2, 1, "MODIS"),
       copy("L", FALSE, date2, 1, "Landsat"),
       copy("M", TRUE, date2, 1, "MODIS"),
       copy("L", TRUE, date2, 1, "Landsat") >>

\* the date_pairs argument of the running create_subfolders call
date_pairs == IF folder = "train" THEN train_dates ELSE test_dates

\* the copy the running iteration is about to make
thisCopy == copies(date_pairs[i + 1][1], date_pairs[i + 1][2])[step]

\* step 01 as a whole (lines 48-69) on two arrays of date strings
RECURSIVE pairAll(_, _)
pairAll(ds1, ds2) ==
    IF ds1 = <<>> THEN <<>>
    ELSE LET rest == pairAll(Tail(ds1), ds2)
         IN IF after(Head(ds1), ds2) # <<>>
            THEN << <<strftime(Head(ds1)), strftime(closest_date(Head(ds1), ds2))>> >>
                 \o rest
            ELSE rest

pairedDates(a1, a2) ==
    formatDates(pairAll([n \in 1..Len(a1) |-> strptime(a1[n])],
                        [n \in 1..Len(a2) |-> strptime(a2[n])]))

\* the dates the triples of tutorial 02 are saved for, in ascending order
TripleMonths == 1..6
TripleDates == SortSeq([n \in 1..(2 * Cardinality(TripleMonths)) |->
                           <<2020, ((n + 1) \div 2), IF n % 2 = 1 THEN 1 ELSE 15>>],
                       strLess)

AllSourceFiles ==
    {[sensor |-> s, mask |-> m, date |-> compact(TripleDates[n])] :
        s \in {"M", "L", "S"}, m \in BOOLEAN, n \in 1..Len(TripleDates)}

InitAssembly ==
    /\ pc = "makedirs"
    /\ TrainIdle
    /\ CommonIdle
    /\ FillIdle
    /\ common_dates_array1 = <<>>
    /\ common_dates_array2 = <<>>
    /\ dates1 = <<>>
    /\ dates2 = <<>>
    /\ k = 0
    /\ result_dates = <<>>
    /\ \E n \in 0..MaxPairs :
       \E a2 \in {Tail(TripleDates), Tail(Tail(TripleDates))} :
          dates = pairedDates(SubSeq(TripleDates, 1, n), a2)
    /\ \E missing \in {{}} \cup {{f} : f \in AllSourceFiles} :
          src_files = AllSourceFiles \ missing
    /\ fs_dirs = {}
    /\ fs_files = {}
    /\ train_dates = <<>>
    /\ test_dates = <<>>
    /\ folder = "train"
    /\ i = 0
    /\ step = 0

\* lines 76-81
MakeMainFolders ==
    /\ pc = "makedirs"
    /\ fs_dirs' = fs_dirs \cup {<<>>, <<"train">>, <<"test">>}
    /\ pc' = "split"
    /\ UNCHANGED <<src_files, fs_files, train_dates, test_dates, folder, i, step,
                   notAssembly>>

\* lines 84-86, and the call of line 141
SplitDates ==
    /\ pc = "split"
    /\ train_dates' = sliceTo(dates, split_index)
    /\ test_dates' = sliceFrom(dates, split_index)
    /\ folder' = "train"
    /\ i' = 0
    /\ pc' = "create"
    /\ UNCHANGED <<src_files, fs_dirs, fs_files, step, notAssembly>>

\* lines 90-94: an iteration starts, os.makedirs(pair_folder, exist_ok=True)
MakePairFolder ==
    /\ pc = "create"
    /\ i < Len(date_pairs)
    /\ fs_dirs' = fs_dirs \cup {<<folder, i>>}
    /\ step' = 1
    /\ pc' = "copy"
    /\ UNCHANGED <<src_files, fs_files, train_dates, test_dates, folder, i, notAssembly>>

\* shutil.copy(src, dst): dst is created or overwritten
copied(files, dir, c) ==
    {f \in files : ~(f.dir = dir /\ f.name = c.dst)}
       \cup {[dir |-> dir, name |-> c.dst, content |-> c.src]}

\* a variant in which a missing source file is skipped and the loop goes on
CopyFails_skip ==
    /\ pc = "copy"
    /\ thisCopy.src \notin src_files
    /\ IF step = Len(copies(0, 0))
       THEN /\ i' = i + 1
            /\ step' = 0
            /\ pc' = "create"
       ELSE /\ i' = i
            /\ step' = step + 1
            /\ pc' = "copy"
    /\ UNCHANGED <<src_files, fs_dirs, fs_files, train_dates, test_dates, folder,
                   notAssembly>>

\* lines 114-120, 136-139: shutil.copy of a missing file raises
\* FileNotFoundError, which nothing catches: the script ends
CopyFails ==
    /\ pc = "copy"
    /\ thisCopy.src \notin src_files
    /\ pc' = "FileNotFoundError"
    /\ UNCHANGED <<src_files, fs_dirs, fs_files, train_dates, test_dates, folder, i,
                   step, notAssembly>>

\* lines 114-120, 136-139: one shutil.copy
CopyFile ==
    /\ pc = "copy"
    /\ thisCopy.src \in src_files
    /\ fs_files' = copied(fs_files, <<folder, i>>, thisCopy)
    /\ IF step = Len(copies(0, 0))
       THEN /\ i' = i + 1
            /\ step' = 0
            /\ pc' = "create"
       ELSE /\ i' = i
            /\ step' = step + 1
            /\ pc' = "copy"
    /\ UNCHANGED <<src_files, fs_dirs, train_dates, test_dates, folder, notAssembly>>

\* line 141 returns, line 142 calls
TrainDone ==
    /\ pc = "create"
    /\ folder = "train"
    /\ i >= Len(date_pairs)
    /\ folder' = "test"
    /\ i' = 0
    /\ UNCHANGED <<pc, src_files, fs_dirs, fs_files, train_dates, test_dates, step,
                   notAssembly>>

\* line 142 returns, line 144
TestDone ==
    /\ pc = "create"
    /\ folder = "test"
    /\ i >= Len(date_pairs)
    /\ pc' = "done"
    /\ UNCHANGED <<src_files, fs_dirs, fs_files, train_dates, test_dates, folder, i,
                   step, notAssembly>>

NextAssembly ==
    \/ MakeMainFolders
    \/ SplitDates
    \/ MakePairFolder
    \/ CopyFile
    \/ CopyFails
    \/ TrainDone
    \/ TestDone

SpecAssembly == InitAssembly /\ [][NextAssembly]_vars

(***************************************************************************)
(* Tutorial 02, step 02: progressive focal-mean gap filling                *)
(* (DataProcessor.progressive_focal_mean and                               *)
(* progressive_focal_mean_multiband).  Band values are integers and a mean *)
(* is rounded down.                                                        *)
(***************************************************************************)
Rows == 1..2
Cols == 1..GridW
Pixels == Rows \X Cols

\* the raster's spatial extent: its larger side
Extent == IF Cardinality(Rows) > GridW THEN Cardinality(Rows) ELSE GridW

Abs(x) == IF x < 0 THEN 0 - x ELSE x

\* the pixels of the square window of size w centred on p
Window(p, w) ==
    {q \in Pixels : Abs(q[1] - p[1]) <= w \div 2 /\ Abs(q[2] - p[2]) <= w \div 2}

ValidIn(m, p, w) == {q \in Window(p, w) : m[q]}

RECURSIVE SumBand(_, _, _)
SumBand(r, P, b) ==
    IF P = {} THEN 0
    ELSE LET q == CHOOSE x \in P : TRUE
         IN r[q][b] + SumBand(r, P \ {q}, b)

\* the mean, band by band, of the pixels P of raster r
Mean(r, P) ==
    LET q == CHOOSE x \in P : TRUE
    IN [b \in 1..Len(r[q]) |-> SumBand(r, P, b) \div Cardinality(P)]

AllValid == \A p \in Pixels : mask[p]

\* the values a valid pixel of a single-band and of a multiband raster takes
BandValues == {<<0>>, <<2>>, <<0, 2>>, <<2, 0>>}

\* the (initial_size, step_size) of a call
WindowParams == {<<1, 1>>, <<2, 1>>, <<1, 2>>}

InitFill ==
    /\ pc = "fill"
    /\ TrainIdle
    /\ PairingIdle
    /\ CommonIdle
    /\ AssemblyIdle
    /\ \E nbands \in {1, 2} :
       \E given \in [Pixels -> {[valid |-> FALSE, value |-> [b \in 1..nbands |-> 0]]}
                                  \cup {[valid |-> TRUE, value |-> v] :
                                           v \in {x \in BandValues : Len(x) = nbands}}] :
          /\ mask = [p \in Pixels |-> given[p].valid]
          /\ raster = [p \in Pixels |-> given[p].value]
    /\ \E ws \in WindowParams :
          /\ window = ws[1]
          /\ step_size = ws[2]
    /\ raster_in = raster
    /\ mask_in = mask

\* a variant that takes the focal mean at every pixel, valid ones included
FillPass_smoothAll ==
    /\ pc = "fill"
    /\ ~AllValid
    /\ window <= Extent
    /\ raster' = [p \in Pixels |->
                    IF ValidIn(mask, p, window) # {}
                    THEN Mean(raster, ValidIn(mask, p, window))
                    ELSE raster[p]]
    /\ mask' = [p \in Pixels |-> mask[p] \/ ValidIn(mask, p, window) # {}]
    /\ window' = window + step_size
    /\ UNCHANGED <<pc, step_size, raster_in, mask_in, notFill>>

\* one pass: every pixel still invalid with a valid pixel in its window takes
\* the mean of the valid pixels of the window and becomes valid; the window
\* then grows
FillPass ==
    /\ pc = "fill"
    /\ ~AllValid
    /\ window <= Extent
    /\ raster' = [p \in Pixels |->
                    IF ~mask[p] /\ ValidIn(mask, p, window) # {}
                    THEN Mean(raster, ValidIn(mask, p, window))
                    ELSE raster[p]]
    /\ mask' = [p \in Pixels |-> mask[p] \/ ValidIn(mask, p, window) # {}]
    /\ window' = window + step_size
    /\ UNCHANGED <<pc, step_size, raster_in, mask_in, notFill>>

\* the loop ends: every pixel is valid, or the window exceeds the extent
FillReturn ==
    /\ pc = "fill"
    /\ AllValid \/ window > Extent
    /\ pc' = "filled"
    /\ UNCHANGED <<fillVars, notFill>>

NextFill == FillPass \/ FillReturn

SpecFill == InitFill /\ [][NextFill]_vars

(***************************************************************************)
(* Properties of the gap filling.                                          *)
(***************************************************************************)
ValidCount(m) == Cardinality({p \in Pixels : m[p]})

C8_State ==
    pc \in {"fill", "filled"} =>
       \A p \in Pixels : mask_in[p] => (mask[p] /\ raster[p] = raster_in[p])

C8_Step ==
    pc = "fill" =>
       /\ \A p \in Pixels : mask[p] => (mask'[p] /\ raster'[p] = raster[p])
       /\ ValidCount(mask') >= ValidCount(mask)

\* C8: in every state of the growing-window loop and in the output, every
\* pixel valid in the input is valid and holds its input value; every pass
\* keeps every valid pixel valid with its value, so the count of valid pixels
\* never decreases.
C8_ValidOnlyGrows == []C8_State /\ [][C8_Step]_vars

\* C8 witness: the loop has ended with every pixel valid, from an input whose
\* only valid pixel was the corner (1, 1): the far pixels were filled in a
\* later pass than the near ones, from filled values.
C8_Witness ==
    /\ pc = "filled"
    /\ AllValid
    /\ \A p \in Pixels : mask_in[p] <=> p = <<1, 1>>
    /\ raster[<<1, 1>>] = raster_in[<<1, 1>>]
    /\ raster_in[<<1, 1>>] # raster_in[<<1, 2>>]

(***************************************************************************)
(* Properties of the dataset assembly (tutorial 03, step 02).              *)
(***************************************************************************)
PairDirs == {d \in fs_dirs : Len(d) = 2}

NamesIn(dir) == {f.name : f \in {g \in fs_files : g.dir = dir}}

\* the pair folders whose iteration has run to its end
Finished ==
    {<<"train", j>> : j \in 0..((IF folder = "train" THEN i ELSE Len(train_dates)) - 1)}
       \cup {<<"test", j>> : j \in 0..((IF folder = "test" THEN i ELSE 0) - 1)}

\* the pair a folder is for, as create_subfolders is given it
GivenPair(dir) ==
    IF dir[1] = "train" THEN train_dates[dir[2] + 1] ELSE test_dates[dir[2] + 1]

\* the pair a folder is for, by its position in the whole pair list
ListedPair(dir) ==
    IF dir[1] = "train" THEN dates[dir[2] + 1] ELSE dates[split_index + dir[2] + 1]

Labels == {"MODIS", "Landsat", "Sentinel"}

SourceOf(name) ==
    [sensor |-> CASE name.sensor = "MODIS" -> "M"
                  [] name.sensor = "Landsat" -> "L"
                  [] name.sensor = "Sentinel" -> "S",
     mask |-> name.mask, date |-> name.date]

T1Names(p) == {[j |-> 0, sensor |-> s, mask |-> m, date |-> p[1]] :
                  s \in Labels, m \in BOOLEAN}

T2Names(p, sensors) == {[j |-> 1, sensor |-> s, mask |-> m, date |-> p[2]] :
                           s \in sensors, m \in BOOLEAN}

SampleNames == [j : {0, 1}, sensor : Labels, mask : BOOLEAN,
                date : {compact(TripleDates[n]) : n \in 1..Len(TripleDates)}]

MarkedIncomplete(dir) == \E f \in fs_files : f.dir = dir /\ f.name \notin SampleNames

\* C5 (as claimed): after a copy has failed on a missing source file, the
\* folder of the pair being assembled does not exist, or holds every file of
\* the pair, or is marked incomplete.
C5_NoPartialFolder ==
    pc = "FileNotFoundError" =>
       LET dir == <<folder, i>>
       IN \/ dir \notin fs_dirs
          \/ T1Names(GivenPair(dir)) \cup T2Names(GivenPair(dir), {"MODIS", "Landsat"})
                \subseteq NamesIn(dir)
          \/ MarkedIncomplete(dir)

\* C6 (as claimed): a pair folder whose iteration ended without error holds
\* the raster and the mask of MODIS, Landsat and Sentinel for t1 under index
\* 0 and for t2 under index 1, no t1 file under index 1 and no t2 file under
\* index 0.
C6_AllSensorsBothDates ==
    \A dir \in Finished :
       LET p == GivenPair(dir)
       IN /\ T1Names(p) \subseteq NamesIn(dir)
          /\ T2Names(p, Labels) \subseteq NamesIn(dir)
          /\ \A nm \in NamesIn(dir) :
                /\ (nm.date = p[1] /\ p[1] # p[2]) => nm.j = 0
                /\ (nm.date = p[2] /\ p[1] # p[2]) => nm.j = 1

\* C6 (amended): a pair folder whose iteration ended without error holds
\* exactly the raster and the mask of MODIS, Landsat and Sentinel for t1 under
\* index 0 and the raster and the mask of MODIS and Landsat (not Sentinel) for
\* t2 under index 1, each a copy of the source file of that sensor, kind and
\* date; no t1 file is under index 1 and no t2 file under index 0.
C6_SampleFolder ==
    \A dir \in Finished :
       LET p == GivenPair(dir)
       IN /\ NamesIn(dir) = T1Names(p) \cup T2Names(p, {"MODIS", "Landsat"})
          /\ \A f \in fs_files : f.dir = dir => f.content = SourceOf(f.name)
          /\ \A nm \in NamesIn(dir) :
                /\ (nm.date = p[1] /\ p[1] # p[2]) => nm.j = 0
                /\ (nm.date = p[2] /\ p[1] # p[2]) => nm.j = 1

\* C6 witness: the run has ended and a train folder and a test folder are
\* finished.
C6_Witness ==
    /\ pc = "done"
    /\ <<"train", 0>> \in Finished
    /\ <<"test", 0>> \in Finished

C9_State ==
    \* files are in pair folders that exist
    /\ \A f \in fs_files : f.dir \in PairDirs
    \* a pair folder other than the one being assembled is finished and whole,
    \* and none is later than the one being assembled
    /\ \A dir \in PairDirs :
          /\ dir \notin Finished => (dir = <<folder, i>> /\ pc \in {"copy", "FileNotFoundError"})
          /\ dir \in Finished =>
                T1Names(GivenPair(dir)) \cup T2Names(GivenPair(dir), {"MODIS", "Landsat"})
                   \subseteq NamesIn(dir)
    \* in a pair folder the t1 files all precede any t2 file
    /\ \A dir \in PairDirs :
          (\E nm \in NamesIn(dir) : nm.j = 1) => T1Names(GivenPair(dir)) \subseteq NamesIn(dir)
    \* a test folder exists only once every train pair is assembled
    /\ (\E dir \in PairDirs : dir[1] = "test") =>
          \A j \in 0..(Len(train_dates) - 1) : <<"train", j>> \in Finished \cap PairDirs

C9_Step ==
    \* a step writes only into the folder of the pair being assembled
    /\ \A f \in fs_files' \ fs_files : f.dir = <<folder, i>>
    /\ fs_dirs' \ fs_dirs \subseteq {<<>>, <<"train">>, <<"test">>, <<folder, i>>}
    \* nothing is ever removed, and the position only moves forward
    /\ {<<f.dir, f.name>> : f \in fs_files} \subseteq {<<f.dir, f.name>> : f \in fs_files'}
    /\ fs_dirs \subseteq fs_dirs'
    /\ \/ folder' = folder /\ i' >= i
       \/ folder = "train" /\ folder' = "test" /\ i >= Len(train_dates)
    \* after an error nothing is created or written
    /\ pc = "FileNotFoundError" => (pc' = pc /\ fs_dirs' = fs_dirs /\ fs_files' = fs_files)

\* C9: the assembly is strictly sequential: a pair folder is created and
\* written only while it is the pair being assembled, every earlier pair
\* folder of the group is whole by then, the t1 files of a pair are all
\* copied before any t2 file, every train pair is assembled before a test
\* folder exists, and after a failed copy nothing more is created or written.
C9_Sequential == []C9_State /\ [][C9_Step]_vars

\* C9 witness: a copy into the second test folder has failed on a missing
\* file; the train group and the first test folder are whole.
C9_Witness ==
    /\ pc = "FileNotFoundError"
    /\ folder = "test"
    /\ i = 1
    /\ step > 1

\* C10: train_dates is the first split_index pairs of the list and test_dates
\* the rest, in list order; every file of train/pair_i is of pair i and every
\* file of test/pair_i of pair split_index + i; a finished run has one folder
\* per pair; a list of at most split_index pairs gives an empty test group;
\* and no error occurs unless a source file is missing.
C10_TrainTestSplit ==
    /\ pc \notin {"makedirs", "split"} =>
          /\ train_dates \o test_dates = dates
          /\ Len(train_dates) = (IF Len(dates) < split_index THEN Len(dates) ELSE split_index)
          /\ Len(dates) <= split_index => test_dates = <<>>
    /\ \A f \in fs_files :
          /\ f.dir[2] + 1 + (IF f.dir[1] = "test" THEN split_index ELSE 0) <= Len(dates)
          /\ f.name.date = ListedPair(f.dir)[f.name.j + 1]
    /\ \A dir \in Finished : NamesIn(dir) # {}
    /\ pc = "done" =>
          PairDirs = {<<"train", j>> : j \in 0..(Len(train_dates) - 1)}
                        \cup {<<"test", j>> : j \in 0..(Len(dates) - split_index - 1)}
    /\ Len(dates) <= split_index => ~\E dir \in PairDirs : dir[1] = "test"
    /\ pc = "FileNotFoundError" => src_files # AllSourceFiles

\* C10 witness: a finished run over more than split_index pairs, with two
\* test folders.
C10_Witness ==
    /\ pc = "done"
    /\ Len(dates) > split_index + 1
    /\ NamesIn(<<"test", 1>>) # {}

(***************************************************************************)
(* Properties of the common dates (tutorial 01, step 03) and of their      *)
(* hand-off to tutorial 02.                                                *)
(***************************************************************************)
Elems(s) == {s[n] : n \in 1..Len(s)}

\* the dates on which a series of timestamps has an image
DatesOf(series) == {series[n].date : n \in 1..Len(series)}

InAllThree == DatesOf(MODIS_times) \cap DatesOf(L8_times_filtered) \cap DatesOf(dates_sentinel2)

\* C4: once the three-way intersection is computed, a date is in it exactly
\* when all three series hold it; it is within the intersection of any two
\* series; intersecting the three arrays in any order gives the same array;
\* and intersecting the result with any input array again leaves it unchanged.
C4_CommonDates ==
    /\ pc = "intersected2" =>
          Elems(common_dates) = DatesOf(dates_sentinel2) \cap DatesOf(L8_times_filtered)
    /\ pc \in {"intersected3", "stage2", "stage2_loaded", "stage2_FileNotFoundError"} =>
          LET S == dates_sentinel
              L == dates_landsat
              M == dates_modis
          IN /\ Elems(common_dates) = InAllThree
             /\ Elems(common_dates) \subseteq Elems(intersect1d(S, L))
             /\ Elems(common_dates) \subseteq
                   DatesOf(dates_sentinel2) \cap DatesOf(L8_times_filtered)
             /\ \A o \in {<<S, L, M>>, <<L, S, M>>, <<S, M, L>>, <<M, S, L>>,
                          <<L, M, S>>, <<M, L, S>>} :
                   /\ intersect1d(intersect1d(o[1], o[2]), o[3]) = common_dates
                   /\ intersect1d(o[1], intersect1d(o[2], o[3])) = common_dates
             /\ \A X \in {S, L, M} :
                   /\ intersect1d(common_dates, X) = common_dates
                   /\ intersect1d(X, common_dates) = common_dates

\* C4 witness: the three-way intersection is computed, holds a date, is
\* smaller than the Sentinel-Landsat intersection, and the MODIS series lists
\* one date twice.
C4_Witness ==
    /\ pc = "intersected3"
    /\ common_dates # <<>>
    /\ Elems(common_dates) # DatesOf(dates_sentinel2) \cap DatesOf(L8_times_filtered)
    /\ Len(dates_modis) = 2
    /\ dates_modis[1] = dates_modis[2]

\* C7 (as claimed): when tutorial 02's load step has run after tutorial 01 in
\* a working directory that was empty at the start, it has loaded the array
\* tutorial 01 saved, same elements in the same order.
C7_HandOff ==
    pc \in {"stage2_loaded", "stage2_FileNotFoundError"} =>
       /\ pc = "stage2_loaded"
       /\ common_dates_array = common_dates

(***************************************************************************)
(* Properties of the pairing (tutorial 03, step 01).                       *)
(***************************************************************************)
\* s is a later calendar date than t (date strings compared field by field)
Later(s, t) ==
    \/ s[1] > t[1]
    \/ s[1] = t[1] /\ s[2] > t[2]
    \/ s[1] = t[1] /\ s[2] = t[2] /\ s[3] > t[3]

SeriesA == common_dates_array1
SeriesB == common_dates_array2

HasLaterInB(d) == \E m \in 1..Len(SeriesB) : Later(SeriesB[m], d)

\* C1: in every pair produced so far and in every pair of the final array,
\* t2 is strictly later than t1, and a date of series A with no strictly later
\* date in series B is never a t1 of the output.
C1_StrictlyLater ==
    /\ \A n \in 1..Len(result_dates) :
          /\ Later(result_dates[n][2], result_dates[n][1])
          /\ HasLaterInB(result_dates[n][1])
    /\ \A n \in 1..Len(dates) : dates[n][2] > dates[n][1]
    /\ \A a \in 1..Len(SeriesA) :
          ~HasLaterInB(SeriesA[a]) =>
             /\ \A n \in 1..Len(result_dates) : result_dates[n][1] # SeriesA[a]
             /\ \A n \in 1..Len(dates) : dates[n][1] # compact(SeriesA[a])

\* C1 witness: the run has ended, a paired t1 is itself a date of series B,
\* and another date of series A was dropped for lack of a later date.
C1_Witness ==
    /\ pc = "paired"
    /\ \E n \in 1..Len(result_dates) :
          \E m \in 1..Len(SeriesB) : SeriesB[m] = result_dates[n][1]
    /\ \E a \in 1..Len(SeriesA) : ~HasLaterInB(SeriesA[a])

\* C2: every output pair (t1, t2) has t2 a date of series B later than t1
\* with no date of series B strictly between them, and the final array holds
\* the same pairs in compact form; series A = [2020-01-01, 2020-02-01] and
\* B = [2020-01-15, 2020-03-01] give (20200101, 20200115), (20200201, 20200301).
C2_NearestFuture ==
    /\ \A n \in 1..Len(result_dates) :
          LET t1 == result_dates[n][1]
              t2 == result_dates[n][2]
          IN /\ \E m \in 1..Len(SeriesB) : SeriesB[m] = t2
             /\ Later(t2, t1)
             /\ \A m \in 1..Len(SeriesB) :
                   ~(Later(SeriesB[m], t1) /\ Later(t2, SeriesB[m]))
    /\ pc = "paired" =>
          /\ Len(dates) = Len(result_dates)
          /\ \A n \in 1..Len(dates) :
                dates[n] = <<compact(result_dates[n][1]), compact(result_dates[n][2])>>
    /\ ( /\ pc = "paired"
         /\ SeriesA = << <<2020, 1, 1>>, <<2020, 2, 1>> >>
         /\ SeriesB = << <<2020, 1, 15>>, <<2020, 3, 1>> >> )
       => dates = << <<20200101, 20200115>>, <<20200201, 20200301>> >>

\* C2 witness: a finished run in which a t1 had two different later dates in
\* series B to choose from, the farther one listed first.
C2_Witness ==
    /\ pc = "paired"
    /\ Len(SeriesB) = 2
    /\ Later(SeriesB[1], SeriesB[2])
    /\ \E n \in 1..Len(result_dates) :
          /\ Later(SeriesB[2], result_dates[n][1])
          /\ result_dates[n][2] = SeriesB[2]

\* C3: the t1 components of the output are, in order, the dates of series A
\* that have a strictly later date in series B, one pair per such date (of
\* the part of series A read so far while the loop runs); with series A or
\* series B empty the run ends with an empty output.
C3_SubsequenceOfA ==
    LET read == SubSeq(SeriesA, 1, IF k = 0 THEN 0 ELSE k - 1)
        kept == SelectSeq(read, HasLaterInB)
    IN /\ pc \in {"pairing", "paired"} =>
             /\ Len(result_dates) = Len(kept)
             /\ \A n \in 1..Len(kept) : result_dates[n][1] = kept[n]
       /\ pc = "paired" =>
             /\ read = SeriesA
             /\ Len(dates) = Len(kept)
             /\ \A n \in 1..Len(kept) : dates[n][1] = compact(kept[n])
             /\ (SeriesA = <<>> \/ SeriesB = <<>>) => dates = <<>>

\* C3 witness: a finished run over two dates of series A, the later one
\* listed first and dropped, the earlier one listed second and kept.
C3_Witness ==
    /\ pc = "paired"
    /\ Len(SeriesA) = 2
    /\ Later(SeriesA[1], SeriesA[2])
    /\ ~HasLaterInB(SeriesA[1])
    /\ Len(dates) = 1
    /\ dates[1][1] = compact(SeriesA[2])

(***************************************************************************)
(* 04_updated.py: ResumableExperiment.train and the main training block.   *)
(* The checkpoint file holds the number of finished epochs; a write of it  *)
(* is one step (atomic).  The training of an epoch is left as a            *)
(* placeholder in the source, so model and optimizer state never change    *)
(* and are not kept here.  A run may be interrupted at any point and the   *)
(* script started again with the same opt.epochs.                          *)
(***************************************************************************)
EpochNumbers == 0..MaxEpochs

InitTrain ==
    /\ pc = "main"
    /\ PairingIdle
    /\ CommonIdle
    /\ AssemblyIdle
    /\ FillIdle
    /\ epochs \in 0..MaxEpochs
    /\ ckpt \in {<<>>} \cup {<<e>> : e \in 1..(MaxEpochs + 1)}
    /\ start_epoch = 0
    /\ epoch = 0
    /\ interrupts = 0
    /\ ckpt_init = ckpt
    /\ ckpt_at_start = ckpt
    /\ iterations = 0
    /\ trained = [e \in EpochNumbers |-> 0]
    /\ killed_in = [e \in EpochNumbers |-> 0]

\* lines 99-108: train is called when opt.epochs > 0
CallTrain ==
    /\ pc = "main"
    /\ epochs > 0
    /\ pc' = "start"
    /\ ckpt_at_start' = ckpt
    /\ iterations' = 0
    /\ UNCHANGED <<epochs, ckpt, start_epoch, epoch, interrupts, ckpt_init, trained,
                   killed_in, notTrain>>

\* line 99 false: the script goes on to experiment.test
SkipTrain ==
    /\ pc = "main"
    /\ ~(epochs > 0)
    /\ pc' = "skipped"
    /\ UNCHANGED <<trainVars, notTrain>>

\* a variant that never reads the checkpoint
LoadCheckpoint_fromScratch ==
    /\ pc = "start"
    /\ start_epoch' = 0
    /\ epoch' = 0
    /\ pc' = "loop"
    /\ UNCHANGED <<epochs, ckpt, interrupts, ckpt_init, ckpt_at_start, iterations,
                   trained, killed_in, notTrain>>

\* lines 21-33, and range(start_epoch, epochs) of line 36
LoadCheckpoint ==
    /\ pc = "start"
    /\ start_epoch' = (IF ckpt # <<>> THEN ckpt[1] ELSE 0)
    /\ epoch' = start_epoch'
    /\ pc' = "loop"
    /\ UNCHANGED <<epochs, ckpt, interrupts, ckpt_init, ckpt_at_start, iterations,
                   trained, killed_in, notTrain>>

\* lines 36-45: the loop enters the iteration of the next epoch
TrainEpoch ==
    /\ pc = "loop"
    /\ epoch < epochs
    /\ trained' = [trained EXCEPT ![epoch] = @ + 1]
    /\ iterations' = iterations + 1
    /\ pc' = "body"
    /\ UNCHANGED <<epochs, ckpt, start_epoch, epoch, interrupts, ckpt_init,
                   ckpt_at_start, killed_in, notTrain>>

\* a variant that stores the number of the epoch instead of the count done
SaveCheckpoint_epochNumber ==
    /\ pc = "body"
    /\ ckpt' = <<epoch>>
    /\ epoch' = epoch + 1
    /\ pc' = "loop"
    /\ UNCHANGED <<epochs, start_epoch, interrupts, ckpt_init, ckpt_at_start,
                   iterations, trained, killed_in, notTrain>>

\* lines 48-53: torch.save of 'epoch': epoch + 1 ends the iteration
SaveCheckpoint ==
    /\ pc = "body"
    /\ ckpt' = <<epoch + 1>>
    /\ epoch' = epoch + 1
    /\ pc' = "loop"
    /\ UNCHANGED <<epochs, start_epoch, interrupts, ckpt_init, ckpt_at_start,
                   iterations, trained, killed_in, notTrain>>

\* lines 55-56: the range is exhausted
ReturnModel ==
    /\ pc = "loop"
    /\ ~(epoch < epochs)
    /\ pc' = "returned"
    /\ UNCHANGED <<trainVars, notTrain>>

\* the process is killed while train runs
Interrupt ==
    /\ pc \in {"start", "loop", "body"}
    /\ interrupts < MaxInterrupts
    /\ interrupts' = interrupts + 1
    /\ killed_in' = IF pc = "body" THEN [killed_in EXCEPT ![epoch] = @ + 1]
                    ELSE killed_in
    /\ pc' = "killed"
    /\ UNCHANGED <<epochs, ckpt, start_epoch, epoch, ckpt_init, ckpt_at_start,
                   iterations, trained, notTrain>>

\* the script is started again, after an interruption or after a whole run
Restart ==
    /\ pc \in {"killed", "returned"}
    /\ pc' = "main"
    /\ start_epoch' = 0
    /\ epoch' = 0
    /\ UNCHANGED <<epochs, ckpt, interrupts, ckpt_init, ckpt_at_start, iterations,
                   trained, killed_in, notTrain>>

\* the steps of the script itself, and its restart after an interruption
RunTrain ==
    \/ CallTrain
    \/ SkipTrain
    \/ LoadCheckpoint
    \/ TrainEpoch
    \/ SaveCheckpoint
    \/ ReturnModel
    \/ (pc = "killed" /\ Restart)

NextTrain ==
    \/ CallTrain
    \/ SkipTrain
    \/ LoadCheckpoint
    \/ TrainEpoch
    \/ SaveCheckpoint
    \/ ReturnModel
    \/ Interrupt
    \/ Restart

SpecTrain == InitTrain /\ [][NextTrain]_vars

\* a started script runs on, and an interrupted one is started again
SpecTrainFair == SpecTrain /\ WF_vars(RunTrain)

(***************************************************************************)
(* Properties of the resumable training.                                   *)
(***************************************************************************)
\* the number of finished epochs on disk: 0 without a checkpoint
StoredIn(c) == IF c = <<>> THEN 0 ELSE c[1]

C11_State ==
    \* a run starts its loop at the epoch stored when it started
    /\ pc \in {"loop", "body"} => start_epoch = StoredIn(ckpt_at_start)
    \* the epoch in training is the first one not saved yet
    /\ pc = "body" => epoch = StoredIn(ckpt)
    \* an epoch is entered once, and once more per interruption that hit it
    /\ \A e \in EpochNumbers : trained[e] <= 1 + killed_in[e]

C11_Step ==
    \* the stored epoch never decreases and a save adds exactly one
    /\ StoredIn(ckpt') >= StoredIn(ckpt)
    /\ ckpt' # ckpt => (ckpt' # <<>> /\ StoredIn(ckpt') = StoredIn(ckpt) + 1)
    \* an epoch whose checkpoint is saved is never entered again
    /\ \A e \in EpochNumbers : trained'[e] # trained[e] => StoredIn(ckpt) <= e
    \* the epochs value stays the same over the runs
    /\ epochs' = epochs

\* C11: over runs interrupted anywhere and restarted with the same epochs,
\* the epoch stored in the checkpoint never decreases and grows by exactly 1
\* per save, each run starts its loop at the stored epoch, an epoch whose
\* checkpoint is saved is never trained again, and an epoch is repeated only
\* when an interruption hit it while it was in progress.
C11_ResumeNeverRepeats == []C11_State /\ [][C11_Step]_vars

\* C11 witness: training from no checkpoint has returned after an
\* interruption that hit an epoch in progress; that epoch was trained twice
\* and the stored epoch is epochs.
C11_Witness ==
    /\ pc = "returned"
    /\ ckpt_init = <<>>
    /\ ckpt = <<epochs>>
    /\ \E e \in EpochNumbers : trained[e] = 2 /\ killed_in[e] = 1
    /\ \E e \in EpochNumbers : trained[e] = 1

\* no checkpoint and epochs >= 1, or a checkpoint storing at most epochs
C12_Pre ==
    \/ ckpt_init = <<>> /\ epochs >= 1
    \/ ckpt_init # <<>> /\ ckpt_init[1] <= epochs

\* C12: under that condition train eventually returns (the interruptions
\* being finitely many and each followed by a restart), and whenever it has
\* returned the checkpoint stores epochs; a run started on a checkpoint that
\* stores epochs or more enters no iteration and leaves the checkpoint as it
\* was.
C12_Completes ==
    /\ C12_Pre ~> (pc = "returned")
    /\ [](pc = "returned" /\ C12_Pre => ckpt = <<epochs>>)
    /\ []((pc \in {"loop", "body", "killed", "returned"}
           /\ ckpt_at_start # <<>> /\ ckpt_at_start[1] >= epochs)
          => (iterations = 0 /\ ckpt = ckpt_at_start))

\* C12 witness: train has returned, after the most interruptions the model
\* allows, from no checkpoint to a checkpoint that stores epochs > 1.
C12_Witness ==
    /\ pc = "returned"
    /\ interrupts = MaxInterrupts
    /\ ckpt_init = <<>>
    /\ epochs > 1
    /\ ckpt = <<epochs>>
    /\ iterations > 0

====
